---- MODULE Spec2Model ----
(***************************************************************************)
(* Floppy Bird (src/script.js): the session state, the input handlers, the *)
(* frame callback `loop` and the end-of-session transition `endGame`.      *)
(*                                                                         *)
(* Numbers are fixed point, so that the arithmetic of the frame callback   *)
(* is exact for the frame deltas used here:                                *)
(*   time          milliseconds                                            *)
(*   velocity      1/VS px/s                                               *)
(*   bird.y, p.x   1/PX px                                                 *)
(*   bird.rot      pi/ROT_DEN rad, each step rounded down to that unit     *)
(*   heights, widths, pipe.top, pipe.bottom: whole px, as in the code      *)
(* lastTime and the callback's timestamp enter the code only through their *)
(* difference, which a frame draws from DeltaMs.                           *)
(***************************************************************************)
EXTENDS Integers, Sequences, FiniteSets, TLC

VARIABLES
    clientWidth,    \* canvas.clientWidth  (environment)
    clientHeight,   \* canvas.clientHeight (environment)
    width,          \* let width
    height,         \* let height
    bird,           \* [y, vy, rot, alive]; x = BIRD_X and radius = BIRD_RADIUS are fixed
    pipes,          \* sequence of [x, top, bottom, passed], oldest first
    spawnTimer,     \* ms
    running,
    score,
    best,
    paused,
    rafPending,     \* number of loop callbacks requestAnimationFrame holds
    stored,         \* localStorage 'floppy_best'
    endScore,       \* number shown in endScore.textContent, NoText before any
    endTitle,       \* endTitle.textContent
    timers,         \* setTimeout callbacks endGame() has scheduled
    endCalls,       \* history: calls of endGame since the last reset()
    lastOp,         \* history: the handler that ran last
    inputs,         \* history: input events handled since start-up
    flaps           \* history: doFlap calls since start-up

vars == <<clientWidth, clientHeight, width, height, bird, pipes, spawnTimer,
          running, score, best, paused, rafPending, stored,
          endScore, endTitle, timers,
          endCalls, lastOp, inputs, flaps>>

----------------------------------------------------------------------------
\* Fixed-point units
VS == 10
PX == VS * 1000
ROT_DEN == 7800

\* Game constants
GRAVITY == 1100
FLAP_VY == -350
PIPE_GAP == 140
PIPE_W == 60
PIPE_INTERVAL == 1400
PIPE_SPEED == 180
BIRD_X == 120
BIRD_RADIUS == 18
MAX_ROT == ROT_DEN \div 6
MIN_ROT == -((ROT_DEN * 10) \div 26)
DT_CAP == 35
MIN_TOP == 48
GROUND_MARGIN == 120
MIN_GROUND == 34
NoText == -1

\* Bounds of the model
MaxInputs == 3
MaxFlaps == 1
MaxSpawned == 2

\* canvas sizes <<clientWidth, clientHeight>> the environment may give
Sizes == {<<40, 3000>>, <<320, 130>>}
\* ms between lastTime and the timestamp of a frame: the same instant, or a
\* slow frame that the clamp cuts to DT_CAP
DeltaMs == {0, 40}
\* values of Math.random() as <<numerator, denominator>>, in [0, 1)
RandDraws == {<<0, 1>>, <<23, 25>>, <<999, 1000>>}
\* localStorage 'floppy_best' at start-up
StoredBest == {0, 1}

Min(a, b) == IF a < b THEN a ELSE b
Max(a, b) == IF a > b THEN a ELSE b
clamp(v, a, b) == Max(a, Min(b, v))
\* A + (v - a) * (B - A) / (b - a), rounded down to the unit of A and B
map(v, a, b, A, B) == A + ((v - a) * (B - A)) \div (b - a)

----------------------------------------------------------------------------
\* Math.max(34, Math.round(canvas.clientHeight * 0.12))
groundHeight == Max(MIN_GROUND, (12 * clientHeight + 50) \div 100)

\* The bird reset() builds from playfield height h
NewBird(h) == [y |-> (h \div 2) * PX, vy |-> 0, rot |-> 0, alive |-> TRUE]

\* The pipe spawnPipe() pushes, for playfield size w x h and random draw r
spawnPipe(w, h, r) ==
    LET maxTop == h - PIPE_GAP - GROUND_MARGIN
        top    == ((r[1] * (maxTop - MIN_TOP + 1)) \div r[2]) + MIN_TOP
    IN [x |-> (w + 20) * PX, top |-> top, bottom |-> top + PIPE_GAP,
        passed |-> FALSE]

\* collidePipe(pipe) with the comparisons of inX made non-strict
collidePipeTouching(by, p) ==
    LET bx  == BIRD_X * PX
        r   == BIRD_RADIUS * PX
        inX == bx + r >= p.x /\ bx - r <= p.x + PIPE_W * PX
    IN inX /\ (by - r < p.top * PX \/ by + r > p.bottom * PX)

\* collidePipe(pipe) for a bird at height by
collidePipe(by, p) ==
    LET bx  == BIRD_X * PX
        r   == BIRD_RADIUS * PX
        inX == bx + r > p.x /\ bx - r < p.x + PIPE_W * PX
    IN IF ~inX THEN FALSE
       ELSE IF by - r < p.top * PX THEN TRUE
       ELSE IF by + r > p.bottom * PX THEN TRUE
       ELSE FALSE

----------------------------------------------------------------------------
\* The part of the state that loop() and endGame() read and write, as one
\* record; raf counts the callbacks requested for the next frame.
Game == [bird |-> bird, pipes |-> pipes, spawnTimer |-> spawnTimer,
         running |-> running, score |-> score, best |-> best,
         stored |-> stored, endScore |-> endScore, endTitle |-> endTitle,
         timers |-> timers, endCalls |-> endCalls, raf |-> 0]

\* endTitle.textContent = score > best ? 'New High Score!' : 'Game Over',
\* evaluated after best was updated
EndTitleText(sc, bst) == IF sc > bst THEN "New High Score!" ELSE "Game Over"

\* if(score > best) best = score: the best record endGame() leaves
BestAlwaysScore(sc, bst) == sc
NewBest(sc, bst) == IF sc > bst THEN sc ELSE bst

\* endGame(): localStorage.setItem is called only for a new best; when it
\* throws, the statements after it do not run.
endGame(g, throws) ==
    LET newBest == g.score > g.best
        g1 == [g EXCEPT !.running = FALSE, !.endCalls = @ + 1,
                        !.best = NewBest(g.score, g.best)]
    IN IF newBest /\ throws
       THEN g1
       ELSE [g1 EXCEPT !.stored   = IF newBest THEN g1.best ELSE @,
                       !.endScore = g1.score,
                       !.endTitle = EndTitleText(g1.score, g1.best),
                       !.timers   = @ + 1]

\* A pipe after a for loop that moves it and leaves the scoring test out
MovePipeUnscored(p, dt) ==
    [p EXCEPT !.x = p.x - (PIPE_SPEED * dt * PX) \div 1000]

\* One pipe after the body of the for loop that moves and scores it
MovePipe(p, dt) ==
    LET x1 == p.x - (PIPE_SPEED * dt * PX) \div 1000
    IN [p EXCEPT !.x = x1,
                 !.passed = p.passed \/ x1 + PIPE_W * PX < BIRD_X * PX]

\* score++ for a pipe that the for loop marks passed
ScoreStepTwo == 1 + 1
ScoreStep == 1

\* p.x + PIPE_W < -40: the pipe is spliced out
OffScreen(p) == p.x + PIPE_W * PX < (-40) * PX

\* if(bird.y + bird.radius > height - groundHeight()): the ground test, on
\* the integrated height y of the bird
HitsGroundNever(y) == FALSE
HitsGround(y) == y + BIRD_RADIUS * PX > (height - groundHeight) * PX

\* if(bird.y - bird.radius < 0): the ceiling test, on the integrated height
HitsCeilingNever(y) == FALSE
HitsCeiling(y) == y - BIRD_RADIUS * PX < 0

\* if(running && bird.alive): the guard of the update block of loop()
UpdateGuardRunningOnly(g) == g.running
UpdateGuard(g) == g.running /\ g.bird.alive

\* the update block of loop(), for dt ms, random draw r and a
\* localStorage whose setItem throws or not
Update(g, dt, r, throws) ==
    LET b   == g.bird
        vy1 == b.vy + (GRAVITY * dt * VS) \div 1000
        y1  == b.y + vy1 * dt * (PX \div (VS * 1000))
        targetRot == clamp(map(vy1, (-400) * VS, 600 * VS, MAX_ROT, MIN_ROT),
                           MIN_ROT, MAX_ROT)
        rot1 == b.rot + ((targetRot - b.rot) * Min(1000, dt * 8)) \div 1000
        st1 == g.spawnTimer + dt
        due == st1 >= PIPE_INTERVAL
        ps0 == IF due THEN Append(g.pipes, spawnPipe(width, height, r))
                      ELSE g.pipes
        ps1 == [i \in 1..Len(ps0) |-> MovePipe(ps0[i], dt)]
        gained == Cardinality({i \in 1..Len(ps0) :
                                  ~ps0[i].passed /\ ps1[i].passed})
        ps2 == SelectSeq(ps1, LAMBDA p : ~OffScreen(p))
        ground  == HitsGround(y1)
        ceiling == HitsCeiling(y1)
        y2  == IF ceiling THEN BIRD_RADIUS * PX ELSE y1
        vy2 == IF ceiling THEN 0 ELSE vy1
        hit == \E i \in 1..Len(ps2) : collidePipe(y2, ps2[i])
        g1  == [g EXCEPT !.bird = [y |-> y2, vy |-> vy2, rot |-> rot1,
                                   alive |-> b.alive /\ ~(ground \/ hit)],
                         !.pipes = ps2,
                         !.spawnTimer = IF due THEN 0 ELSE st1,
                         !.score = @ + gained * ScoreStep]
    IN IF g1.bird.alive THEN g1 ELSE endGame(g1, throws)

\* if(paused): the first test of loop()
LoopPausedIgnored == FALSE
LoopPaused == paused

\* if(running && bird.alive) requestAnimationFrame(loop): the last
\* statement of loop()
RerequestNever(u) == FALSE
Rerequest(u) == u.running /\ u.bird.alive

\* loop(now), with delta = now - lastTime in ms
loop(g, delta, r, throws) ==
    IF LoopPaused
    THEN [g EXCEPT !.raf = @ + 1]
    ELSE LET dt == Min(DT_CAP, delta)
             u  == IF UpdateGuard(g) THEN Update(g, dt, r, throws) ELSE g
         IN IF Rerequest(u) THEN [u EXCEPT !.raf = @ + 1] ELSE u

\* The n callbacks of one animation frame run one after the other with the
\* same timestamp: the first sees delta, the others see lastTime = now.
RECURSIVE RunCallbacks(_, _, _, _, _)
RunCallbacks(g, n, delta, r, throws) ==
    IF n = 0 THEN g
    ELSE RunCallbacks(loop(g, delta, r, throws), n - 1, 0, r, throws)

----------------------------------------------------------------------------
\* State after the script has run: the declarations, then reset()
Init ==
    /\ \E sz \in Sizes :
          /\ clientWidth = sz[1] /\ clientHeight = sz[2]
          /\ width = sz[1] /\ height = sz[2]
          /\ bird = NewBird(sz[2])
    /\ pipes = <<>>
    /\ spawnTimer = 0
    /\ running = FALSE
    /\ score = 0
    /\ stored \in StoredBest
    /\ best = stored
    /\ paused = FALSE
    /\ rafPending = 0
    /\ endScore = NoText
    /\ endTitle = ""
    /\ timers = 0
    /\ endCalls = 0
    /\ lastOp = "init"
    /\ inputs = 0
    /\ flaps = 0

\* what reset() assigns to score and to pipes
ResetScore == 0
ResetPipesKept == pipes
ResetPipes == <<>>

\* reset(): the retry button and FLOPPY.reset
Reset ==
    /\ inputs < MaxInputs
    /\ width' = clientWidth
    /\ height' = clientHeight
    /\ bird' = NewBird(clientHeight)
    /\ pipes' = ResetPipes
    /\ spawnTimer' = 0
    /\ score' = ResetScore
    /\ running' = FALSE
    /\ endCalls' = 0
    /\ inputs' = inputs + 1
    /\ lastOp' = "reset"
    /\ UNCHANGED <<clientWidth, clientHeight, best, paused, rafPending, stored,
                   endScore, endTitle, timers, flaps>>

\* the bird doFlap() leaves: nothing changes once it is dead
FlapBird(b) == IF b.alive THEN [b EXCEPT !.vy = FLAP_VY * VS, !.rot = MAX_ROT]
                          ELSE b

\* the running flag doFlap() leaves
FlapRunning == TRUE

\* doFlap(): mousedown, touchstart, Space, ArrowUp
DoFlap ==
    /\ inputs < MaxInputs
    /\ flaps < MaxFlaps
    /\ running' = FlapRunning
    /\ rafPending' = IF ~running THEN rafPending + 1 ELSE rafPending
    /\ bird' = FlapBird(bird)
    /\ inputs' = inputs + 1
    /\ flaps' = flaps + 1
    /\ lastOp' = "flap"
    /\ UNCHANGED <<clientWidth, clientHeight, width, height, pipes, spawnTimer,
                   score, best, paused, stored, endScore,
                   endTitle, timers, endCalls>>

\* keydown 'p'
TogglePause ==
    /\ inputs < MaxInputs
    /\ paused' = ~paused
    /\ rafPending' = IF paused /\ running THEN rafPending + 1 ELSE rafPending
    /\ inputs' = inputs + 1
    /\ lastOp' = "pause"
    /\ UNCHANGED <<clientWidth, clientHeight, width, height, bird, pipes,
                   spawnTimer, running, score, best, stored, endScore, endTitle, timers, endCalls, flaps>>

\* the value the READY click handler gives running
ReadyRunningStarts == TRUE
ReadyRunning == FALSE

\* readyBtn click
ReadyClick ==
    /\ inputs < MaxInputs
    /\ running' = ReadyRunning
    /\ rafPending' = rafPending + 1
    /\ inputs' = inputs + 1
    /\ lastOp' = "ready"
    /\ UNCHANGED <<clientWidth, clientHeight, width, height, bird, pipes,
                   spawnTimer, score, best, paused, stored, endScore, endTitle, timers, endCalls, flaps>>

\* window.FLOPPY.start
Start ==
    /\ inputs < MaxInputs
    /\ running' = TRUE
    /\ rafPending' = rafPending + 1
    /\ inputs' = inputs + 1
    /\ lastOp' = "start"
    /\ UNCHANGED <<clientWidth, clientHeight, width, height, bird, pipes,
                   spawnTimer, score, best, paused, stored, endScore, endTitle, timers, endCalls, flaps>>

\* The browser runs the requested loop callbacks of one animation frame,
\* delta ms after lastTime, with random draw r for a spawn and a
\* localStorage whose setItem throws or not
Frame(delta, r, throws) ==
    /\ rafPending > 0
    /\ \E g \in {RunCallbacks(Game, rafPending, delta, r, throws)} :
          /\ bird' = g.bird
          /\ pipes' = g.pipes
          /\ spawnTimer' = g.spawnTimer
          /\ running' = g.running
          /\ score' = g.score
          /\ best' = g.best
          /\ stored' = g.stored
          /\ endScore' = g.endScore
          /\ endTitle' = g.endTitle
          /\ timers' = g.timers
          /\ endCalls' = g.endCalls
          /\ rafPending' = g.raf
    /\ lastOp' = "frame"
    /\ UNCHANGED <<clientWidth, clientHeight, width, height, paused,
                   inputs, flaps>>

\* Math.random() is called only when a spawn is due, localStorage.setItem
\* only at the end of a session: a frame that reaches neither draws one value
DrawsRead(delta) ==
    IF spawnTimer + Min(DT_CAP, delta) >= PIPE_INTERVAL
    THEN RandDraws ELSE {CHOOSE r \in RandDraws : TRUE}
ThrowsRead == IF running /\ bird.alive /\ ~paused THEN BOOLEAN ELSE {FALSE}

AnimationFrame ==
    \E delta \in DeltaMs :
        \E r \in DrawsRead(delta), throws \in ThrowsRead :
            Frame(delta, r, throws)

\* The window is resized: resize() touches the backing store only; the
\* session reads the new size at the next reset() and in groundHeight()
Resize ==
    /\ inputs < MaxInputs
    /\ \E sz \in Sizes :
          /\ sz # <<clientWidth, clientHeight>>
          /\ clientWidth' = sz[1]
          /\ clientHeight' = sz[2]
    /\ inputs' = inputs + 1
    /\ lastOp' = "resize"
    /\ UNCHANGED <<width, height, bird, pipes, spawnTimer, running, score,
                   best, paused, rafPending, stored, endScore, endTitle, timers, endCalls, flaps>>

Next ==
    \/ Reset
    \/ DoFlap
    \/ TogglePause
    \/ ReadyClick
    \/ Start
    \/ AnimationFrame
    \/ Resize

Spec == Init /\ [][Next]_vars

\* A frame would change the state: ENABLED <<AnimationFrame>>_vars, written
\* out. Frame changes lastOp, rafPending and the fields of Game only.
FrameChanges ==
    /\ rafPending > 0
    /\ \/ lastOp # "frame"
       \/ \E delta \in DeltaMs :
            \E r \in DrawsRead(delta), throws \in ThrowsRead :
               LET g == RunCallbacks(Game, rafPending, delta, r, throws)
               IN [g EXCEPT !.raf = 0] # Game \/ g.raf # rafPending

\* The browser runs the callbacks requestAnimationFrame holds: a frame that
\* can happen does happen. This is weak fairness of AnimationFrame, with the
\* enabling condition in the written-out form; among the steps of Next the
\* ones that leave lastOp = "frame" are those of AnimationFrame.
SpecFair ==
    Spec /\ ([]<>(~FrameChanges) \/ []<>(<<lastOp' = "frame">>_vars))

----------------------------------------------------------------------------
\* spawnPipe() on its own: every playfield height of SpawnHeights, every
\* draw of RandDraws, up to MaxSpawned pipes
SpawnHeights == {100, 200, 308, 480, 600, 1000, 1200, 2000}

InitSpawn ==
    /\ clientWidth = 320 /\ width = 320
    /\ clientHeight \in SpawnHeights
    /\ height = clientHeight
    /\ bird = NewBird(height)
    /\ pipes = <<>>
    /\ spawnTimer = 0
    /\ running = FALSE
    /\ score = 0
    /\ stored \in StoredBest
    /\ best = stored
    /\ paused = FALSE
    /\ rafPending = 0
    /\ endScore = NoText
    /\ endTitle = ""
    /\ timers = 0
    /\ endCalls = 0
    /\ lastOp = "init"
    /\ inputs = 0
    /\ flaps = 0

SpawnOnly ==
    /\ Len(pipes) < MaxSpawned
    /\ \E r \in RandDraws : pipes' = Append(pipes, spawnPipe(width, height, r))
    /\ lastOp' = "spawn"
    /\ UNCHANGED <<clientWidth, clientHeight, width, height, bird, spawnTimer,
                   running, score, best, paused, rafPending, stored, endScore,
                   endTitle, timers, endCalls, inputs, flaps>>

SpecSpawn == InitSpawn /\ [][SpawnOnly]_vars

----------------------------------------------------------------------------
\* The frame callback on sessions in flight whose pipes are about to cross
\* the bird or to leave the screen. A pipe is <<x in 1/10 px, passed>>; its
\* gap (1440..1580) holds the bird of a 3000 px playfield. Each start is a
\* spawn timer and the pipes on screen, oldest first:
\*   no pipe yet;
\*   two pipes 252 px apart, the older one 2.8 px before the scoring line;
\*   two pipes 252 px apart, the older one scored and 8 px before removal;
\*   two unscored pipes 3 px apart, which cross the bird in the same tick
\*   (the for loop takes any array; spawnPipe() does not space pipes so).
PipeStarts ==
    { [st |-> 0,    ps |-> <<>>],
      [st |-> 140,  ps |-> << <<628, FALSE>>, <<3148, FALSE>> >>],
      [st |-> 1000, ps |-> << <<-920, TRUE>>, <<1600, FALSE>> >>],
      [st |-> 140,  ps |-> << <<600, FALSE>>, <<630, FALSE>> >>] }

PipeAt(xp) == [x |-> xp[1] * (PX \div 10), top |-> 1440,
               bottom |-> 1440 + PIPE_GAP, passed |-> xp[2]]

InitPipes ==
    /\ clientWidth = 320 /\ width = 320
    /\ clientHeight = 3000 /\ height = 3000
    /\ bird = NewBird(height)
    /\ \E s \in PipeStarts :
          /\ pipes = [i \in 1..Len(s.ps) |-> PipeAt(s.ps[i])]
          /\ spawnTimer = s.st
          /\ score = Cardinality({i \in 1..Len(s.ps) : s.ps[i][2]})
    /\ running = TRUE
    /\ stored \in StoredBest
    /\ best = stored
    /\ paused = FALSE
    /\ rafPending = 1
    /\ endScore = NoText
    /\ endTitle = ""
    /\ timers = 0
    /\ endCalls = 0
    /\ lastOp = "init"
    /\ inputs = 0
    /\ flaps = 0

SpecPipes == InitPipes /\ [][AnimationFrame]_vars

----------------------------------------------------------------------------
\* collidePipe() on its own: the pipe loop of lines 232-237 for one pipe
\* with gap 100..240 in a 320 x 480 playfield. Pipe positions (1/PX px)
\* around the two places where the bird's extent 102..138 meets the pipe's,
\* and bird heights around the two edges of the gap.
CollideXs ==
    { 0, 42 * PX - 1, 42 * PX, 42 * PX + 1, 90 * PX,
      138 * PX - 1, 138 * PX, 138 * PX + 1, 200 * PX }
CollideYs ==
    { 118 * PX - 1, 118 * PX, 118 * PX + 1, 170 * PX,
      222 * PX - 1, 222 * PX, 222 * PX + 1 }

InitCollide ==
    /\ clientWidth = 320 /\ width = 320
    /\ clientHeight = 480 /\ height = 480
    /\ \E y \in CollideYs :
          bird = [y |-> y, vy |-> 0, rot |-> 0, alive |-> TRUE]
    /\ \E x \in CollideXs :
          pipes = << [x |-> x, top |-> 100, bottom |-> 100 + PIPE_GAP,
                      passed |-> x + PIPE_W * PX < BIRD_X * PX] >>
    /\ spawnTimer = 0
    /\ running = TRUE
    /\ score = 0
    /\ stored \in StoredBest
    /\ best = stored
    /\ paused = FALSE
    /\ rafPending = 1
    /\ endScore = NoText
    /\ endTitle = ""
    /\ timers = 0
    /\ endCalls = 0
    /\ lastOp = "init"
    /\ inputs = 0
    /\ flaps = 0

\* for(const p of pipes) if(collidePipe(p)) { bird.alive = false; break; }
CollideOnly ==
    /\ lastOp = "init"
    /\ bird' = [bird EXCEPT !.alive =
                   @ /\ ~\E i \in 1..Len(pipes) : collidePipe(bird.y, pipes[i])]
    /\ lastOp' = "collide"
    /\ UNCHANGED <<clientWidth, clientHeight, width, height, pipes,
                   spawnTimer, running, score, best, paused, rafPending,
                   stored, endScore, endTitle, timers, endCalls, inputs,
                   flaps>>

SpecCollide == InitCollide /\ [][CollideOnly]_vars

----------------------------------------------------------------------------
\* Steps of the handlers, told by the history variables
FlapStep  == lastOp' = "flap" /\ inputs' = inputs + 1
ReadyStep == lastOp' = "ready" /\ inputs' = inputs + 1
StartStep == lastOp' = "start" /\ inputs' = inputs + 1
ResetStep == lastOp' = "reset" /\ inputs' = inputs + 1
PauseStep == lastOp' = "pause" /\ inputs' = inputs + 1
FrameStep == lastOp' = "frame" /\ inputs' = inputs
\* the bird dies in this step: the session ends
Dies == bird.alive /\ ~bird'.alive
\* Idle: not running, bird alive
Idle == ~running /\ bird.alive

\* C1: endGame() has run exactly once since the last reset() when the bird
\* is dead, and not at all while it is alive, whatever callbacks and inputs
\* ran in between.
C1_EndGameOncePerDeath ==
    /\ bird.alive => endCalls = 0
    /\ ~bird.alive => endCalls = 1

\* a frame ran after a flap or start that followed the death
C1_Witness ==
    ~bird.alive /\ running /\ lastOp = "frame" /\ endCalls = 1

\* C2: the best record never decreases, it changes only in the step that
\* ends a session, and that step leaves max(previous best, final score).
C2_BestMonotone ==
    [][ /\ best' >= best
        /\ (best' # best => Dies)
        /\ (Dies => best' = Max(best, score')) ]_vars

\* a session ended with score 1 over a record of 0 (the save failed, so the
\* stored value still shows the record held before)
C2_Witness ==
    ~bird.alive /\ score = 1 /\ best = 1 /\ stored = 0 /\ endCalls = 1

\* C3: the step that ends a session marks the result as a new best exactly
\* when the final score exceeds the best record held before that step.
C3_NewBestMarked ==
    [][ Dies => endTitle' = IF score' > best THEN "New High Score!"
                                             ELSE "Game Over" ]_vars

\* C4: a flap while the bird is dead leaves running, the bird, the pipes,
\* the score and the spawn timer unchanged and requests no frame callback.
C4_FlapWhenEndedNoop ==
    [][ (~bird.alive /\ FlapStep) =>
            UNCHANGED <<running, bird, pipes, score, spawnTimer, rafPending>>
      ]_vars

\* C5 as claimed: from Idle, a flap, a READY click and FLOPPY.start each
\* leave the session running.
C5_Original ==
    [][ (Idle /\ (FlapStep \/ ReadyStep \/ StartStep)) => running' ]_vars

\* C5 amended: from Idle, a flap and FLOPPY.start leave the session running;
\* a READY click leaves running false and only requests a frame callback.
C5_IdleToRunning ==
    [][ /\ (Idle /\ (FlapStep \/ StartStep)) =>
              (running' /\ rafPending' = rafPending + 1)
        /\ (Idle /\ ReadyStep) =>
              (~running' /\ rafPending' = rafPending + 1
               /\ UNCHANGED <<bird, pipes, score, spawnTimer>>) ]_vars

\* READY was clicked in Idle, then the first flap started the session
C5_Witness ==
    lastOp = "flap" /\ inputs = 2 /\ rafPending = 2 /\ running /\ bird.alive
    /\ spawnTimer = 0

\* C6: right after reset() the session is Idle with score 0, no pipes, spawn
\* timer 0, running false, and a fresh live bird at rest in mid-height.
C6_ResetYieldsIdle ==
    lastOp = "reset" =>
        /\ score = 0
        /\ pipes = <<>>
        /\ spawnTimer = 0
        /\ ~running
        /\ bird = [y |-> (clientHeight \div 2) * PX, vy |-> 0, rot |-> 0,
                   alive |-> TRUE]
        /\ endCalls = 0

\* reset() ran after a session that had scored, ended and set a record
C6_Witness ==
    lastOp = "reset" /\ best = 1 /\ endScore = 1 /\ timers = 1 /\ score = 0

\* C7: a frame that runs while paused, and the pause toggle itself, leave
\* the bird, the pipes, the spawn timer, the score and running unchanged.
C7_PauseFreezes ==
    [][ ((paused /\ FrameStep) \/ PauseStep) =>
            UNCHANGED <<bird, pipes, spawnTimer, score, running>> ]_vars

\* a frame ran while a session in flight was paused
C7_Witness ==
    paused /\ lastOp = "frame" /\ running /\ bird.alive /\ spawnTimer > 0
    /\ rafPending > 0

\* C8: when the end of a session sets a new best and localStorage.setItem
\* throws (the stored value stays behind), the in-memory best holds the new
\* value, the result is shown and the game-over panel is scheduled.
C8_SaveFailureStillEnds ==
    [][ (Dies /\ score' > best /\ stored' # score') =>
            (best' = score' /\ endScore' = score' /\ timers' = timers + 1)
      ]_vars

\* C9: from one state to the next the score stays, or grows by exactly 1 in
\* a frame processed while running, alive and not paused, or returns to 0
\* in reset().
C9_ScoreSteps ==
    [][ \/ score' = score
        \/ (score' = score + 1 /\ FrameStep /\ running /\ bird.alive
            /\ ~paused)
        \/ (score' = 0 /\ ResetStep) ]_vars

\* the bird passed a pipe and is still in flight
C9_Witness ==
    score = 1 /\ bird.alive /\ running /\ lastOp = "frame" /\ Len(pipes) = 1
    /\ pipes[1].passed

\* C10: every spawned pipe has top >= minTop and bottom no lower than the
\* top of the ground band.
C10_PipeWithinBounds ==
    \A i \in 1..Len(pipes) :
        /\ pipes[i].top >= MIN_TOP
        /\ pipes[i].bottom <= height - groundHeight

\* The height of the bird after the integration step of a tick of dt ms
IntegratedY(dt) ==
    bird.y + (bird.vy + (GRAVITY * dt * VS) \div 1000) * dt
                 * (PX \div (VS * 1000))
\* a frame in which loop() reaches its update block
Running == running /\ bird.alive
TickStep == Running /\ ~paused /\ FrameStep
\* the tick of a frame delta ms after lastTime; the spawn timer the first
\* callback leaves tells the deltas apart before the frame is compared
TickOf(delta) ==
    /\ TickStep
    /\ LET st1 == spawnTimer + Min(DT_CAP, delta)
       IN spawnTimer' = IF st1 >= PIPE_INTERVAL THEN 0 ELSE st1
    /\ \E r \in DrawsRead(delta), throws \in ThrowsRead :
          Frame(delta, r, throws)

\* C11: a tick processed while running with the bird alive ends with the
\* bird dead and running false exactly when the integrated bird reaches
\* below the ground line (height - groundHeight) or some pipe of the
\* sequence collides with the bird; otherwise the bird stays alive and the
\* session running.
C11_DeathIffGroundOrPipe ==
    [][ \A delta \in DeltaMs :
          TickOf(delta) =>
             LET y1 == IntegratedY(Min(DT_CAP, delta))
                 ground == y1 + BIRD_RADIUS * PX
                              > (height - groundHeight) * PX
                 hit == \E i \in 1..Len(pipes') :
                            collidePipe(bird'.y, pipes'[i])
             IN /\ (ground \/ hit) <=> (~bird'.alive /\ ~running')
                /\ ~(ground \/ hit) => (bird'.alive /\ running') ]_vars

\* the bird died on a pipe while it was above the ground line
C11_Witness ==
    /\ ~bird.alive /\ ~running /\ lastOp = "frame"
    /\ \E i \in 1..Len(pipes) : collidePipe(bird.y, pipes[i])
    /\ bird.y + BIRD_RADIUS * PX <= (height - groundHeight) * PX

\* C12: a frame whose timestamp equals lastTime (dt = 0), in any reachable
\* state, leaves the bird, the pipes, the spawn timer, the score and
\* running unchanged.
C12_ZeroDtNoop ==
    [][ \A r \in DrawsRead(0), throws \in ThrowsRead :
            Frame(0, r, throws) =>
                UNCHANGED <<bird, pipes, spawnTimer, score, running>> ]_vars

\* C13: after every tick processed while running the bird is at or below
\* the ceiling line (bird.y >= radius); a tick whose integration puts
\* bird.y - radius < 0 leaves bird.y = radius and bird.vy = 0, and the bird
\* stays alive unless the ground test or a pipe kills it in that tick.
C13_CeilingClamp ==
    [][ \A delta \in DeltaMs :
          TickOf(delta) =>
             LET y1 == IntegratedY(Min(DT_CAP, delta))
                 above == y1 - BIRD_RADIUS * PX < 0
                 ground == y1 + BIRD_RADIUS * PX
                              > (height - groundHeight) * PX
                 hit == \E i \in 1..Len(pipes') :
                            collidePipe(bird'.y, pipes'[i])
             IN /\ bird'.y >= BIRD_RADIUS * PX
                /\ above => (bird'.y = BIRD_RADIUS * PX /\ bird'.vy = 0)
                /\ (above /\ ~ground /\ ~hit) => (bird'.alive /\ running')
      ]_vars

\* a flap carried the bird to the ceiling: it rests there, alive
C13_Witness ==
    /\ lastOp = "frame" /\ running /\ bird.alive
    /\ bird.y = BIRD_RADIUS * PX /\ bird.vy = 0 /\ flaps = 1

\* C14: the playfield height a tick uses is the height the environment has
\* at that tick (canvas.clientHeight), also after a resize: a pipe spawned
\* in the tick is placed for that height, and the ground test compares the
\* integrated bird with that height minus groundHeight.
C14_CurrentHeightUsed ==
    [][ \A delta \in DeltaMs :
          \A r \in DrawsRead(delta), throws \in ThrowsRead :
            (TickStep /\ Frame(delta, r, throws)) =>
               LET dt == Min(DT_CAP, delta)
                   y1 == IntegratedY(dt)
                   due == spawnTimer + dt >= PIPE_INTERVAL
                   ground == y1 + BIRD_RADIUS * PX
                                > (clientHeight - groundHeight) * PX
                   hit == \E i \in 1..Len(pipes') :
                              collidePipe(bird'.y, pipes'[i])
               IN /\ due => /\ Len(pipes') > 0
                            /\ pipes'[Len(pipes')].top
                                 = spawnPipe(width, clientHeight, r).top
                  /\ ~hit => (bird'.alive <=> ~ground) ]_vars

\* C15: in every tick the score grows by the number of pipes whose passed
\* flag the tick sets, one each and only for pipes not yet passed; after
\* the tick no pipe of the sequence with its trailing edge left of the bird
\* is unpassed, also when two pipes cross in the same tick; every pipe the
\* tick removes has been scored. So the score counts the pipes of the
\* session whose flag was set, removed ones included.
C15_ScoreCountsPassed ==
    [][ \A delta \in DeltaMs :
          \A r \in DrawsRead(delta), throws \in ThrowsRead :
            (TickStep /\ Frame(delta, r, throws)) =>
               LET dt  == Min(DT_CAP, delta)
                   all == IF spawnTimer + dt >= PIPE_INTERVAL
                          THEN Append(pipes, spawnPipe(width, height, r))
                          ELSE pipes
                   x1(i) == all[i].x - (PIPE_SPEED * dt * PX) \div 1000
                   left(i) == x1(i) + PIPE_W * PX < BIRD_X * PX
                   flagged == {i \in 1..Len(all) : ~all[i].passed /\ left(i)}
                   gone == {i \in 1..Len(all) :
                               x1(i) + PIPE_W * PX < (-40) * PX}
               IN /\ score' = score + Cardinality(flagged)
                  /\ \A j \in 1..Len(pipes') :
                        /\ pipes'[j].x + PIPE_W * PX < BIRD_X * PX
                              => pipes'[j].passed
                        /\ \E i \in 1..Len(all) \ gone :
                              /\ pipes'[j].x = x1(i)
                              /\ pipes'[j].passed
                                   = (all[i].passed \/ i \in flagged)
                  /\ Len(pipes') = Len(all) - Cardinality(gone)
                  /\ \A i \in gone : all[i].passed \/ i \in flagged ]_vars

\* two pipes crossed the bird in one tick and both were scored
C15_Witness ==
    /\ lastOp = "frame" /\ bird.alive /\ score = 2 /\ Len(pipes) = 2
    /\ pipes[1].passed /\ pipes[2].passed
    /\ pipes[2].x - pipes[1].x = 3 * PX

\* a scored pipe left the screen: the score counts it still
C15_WitnessRemoved ==
    /\ lastOp = "frame" /\ bird.alive /\ score = 1 /\ Len(pipes) = 1
    /\ ~pipes[1].passed

\* C16: once the bird is dead, a frame callback leaves bird.y, bird.vy, the
\* pipes, the spawn timer and the score unchanged, and the bird stays dead
\* in every step but reset().
C16_EndedFrozen ==
    [][ ~bird.alive =>
          /\ FrameStep => /\ bird'.y = bird.y
                          /\ bird'.vy = bird.vy
                          /\ UNCHANGED <<pipes, spawnTimer, score>>
          /\ ~ResetStep => ~bird'.alive ]_vars

\* a session ended with a scored pipe on screen, FLOPPY.start or a flap
\* set running again, and the frame callback it requested has run
C16_Witness ==
    /\ ~bird.alive /\ running /\ lastOp = "frame" /\ inputs >= 2
    /\ score = 1 /\ Len(pipes) = 1 /\ spawnTimer = 0

\* The bird's horizontal extent and the pipe's share more than a point
XOverlap(p) ==
    Max((BIRD_X - BIRD_RADIUS) * PX, p.x)
        < Min((BIRD_X + BIRD_RADIUS) * PX, p.x + PIPE_W * PX)

\* C17: collidePipe(p) is true exactly when the bird's horizontal extent
\* [x - r, x + r] overlaps [p.x, p.x + PIPE_W] and the bird reaches above
\* the gap (y - r < top) or below it (y + r > bottom); where the two
\* extents only touch (x + r = p.x, x - r = p.x + PIPE_W) they do not
\* overlap and there is no collision.
C17_CollideIffOverlap ==
    lastOp = "collide" =>
        \A i \in 1..Len(pipes) :
            ~bird.alive <=>
                /\ XOverlap(pipes[i])
                /\ \/ bird.y - BIRD_RADIUS * PX < pipes[i].top * PX
                   \/ bird.y + BIRD_RADIUS * PX > pipes[i].bottom * PX

\* the bird reaches above the gap and its extent ends where the pipe
\* begins: collidePipe() was false
C17_Witness ==
    /\ lastOp = "collide" /\ bird.alive
    /\ pipes[1].x = (BIRD_X + BIRD_RADIUS) * PX
    /\ bird.y - BIRD_RADIUS * PX < pipes[1].top * PX

\* C18: a running session with a live bird stops being so only in a tick
\* in which the bird dies or in reset(): a flap, a pause toggle, a READY
\* click and FLOPPY.start leave running true.
C18_RunningUntilDeathOrReset ==
    [][ (Running /\ ~(running' /\ bird'.alive)) =>
            ((FrameStep /\ Dies) \/ ResetStep) ]_vars

\* C19: at most one loop callback is held by requestAnimationFrame at any
\* time, whatever flaps, pause toggles, READY clicks, starts, retries and
\* frames have happened.
C19_SingleCallback == rafPending <= 1

\* C20: whenever the session is running with a live bird, paused or not,
\* at least one loop callback is held by requestAnimationFrame; and when
\* frames are delivered fairly, a running, unpaused session does not stay
\* as it is: ticks are processed until the bird dies, or an input pauses,
\* resets or stops the session.
C20_NoStall ==
    /\ [](Running => rafPending >= 1)
    /\ ((Running /\ ~paused) ~> (~Running \/ paused))

\* 39 ticks in a row were processed, each requesting the next
C20_Witness ==
    /\ Running /\ ~paused /\ lastOp = "frame" /\ rafPending = 1
    /\ spawnTimer = PIPE_INTERVAL - DT_CAP

====
